---- MODULE Spec2Model ----
(***************************************************************************)
(* Model of the LearnSphere AI generation pipeline:                        *)
(*   TextValidator            (utils/text-validator)                       *)
(*   ChromeAIService          (features/ai-playground/services)            *)
(*   ContentProcessor         (services/content-processor)                 *)
(* A run of processContent is cut at its await points; everything between  *)
(* two awaits is one atomic step of the JavaScript event loop.             *)
(***************************************************************************)
EXTENDS Integers, Sequences, FiniteSets, TLC

(***************************************************************************)
(* Bounds of the model                                                     *)
(***************************************************************************)
\* number of processContent invocations that may be in flight together
NumRuns == 2

Runs == 1..NumRuns

\* number of session ids generateSessionId hands out
MaxSessionIds == 12

\* number of storageService calls other than the saveSession of a fresh id
\* (updates, getSession, deleteSession, clearAllSessions)
MaxOtherCalls == 2

(***************************************************************************)
(* Program constants                                                       *)
(***************************************************************************)
minCharacters == 50
maxCharacters == 50000
minWords == 10
maxWords == 10000
MAX_SESSIONS == 10

(***************************************************************************)
(* Texts.  A text is a run-length encoding of a string: a sequence of      *)
(* segments [k, n], n >= 1 characters of class k:                          *)
(*   "alnum"  letters and digits          "space"  whitespace              *)
(*   "sym"    any other character         "script" a complete              *)
(*   <script>..</script> block            "iframe" a complete              *)
(*   <iframe>..</iframe> block (blocks hold no whitespace)                 *)
(***************************************************************************)
Seg(k, n) == [k |-> k, n |-> n]

RECURSIVE Words(_, _)
\* `count` words of `len` alphanumeric characters separated by one space
Words(count, len) ==
    IF count = 0 THEN <<>>
    ELSE IF count = 1 THEN <<Seg("alnum", len)>>
    ELSE <<Seg("alnum", len), Seg("space", 1)>> \o Words(count - 1, len)

RECURSIVE Offset(_, _)
\* index of the first character of segment i (0-based, as String offsets)
Offset(t, i) == IF i <= 1 THEN 0 ELSE Offset(t, i - 1) + t[i - 1].n

\* String.length
TextLength(t) == Offset(t, Len(t) + 1)

\* text.trim() === ''
IsBlank(t) == \A i \in 1..Len(t) : t[i].k = "space"

\* text.trim().split(/\s+/).length
SplitWordCount(t) ==
    Cardinality({i \in 1..Len(t) :
        /\ t[i].k # "space"
        /\ (i = 1 \/ t[i - 1].k = "space")})

countWords(t) == IF IsBlank(t) THEN 0 ELSE SplitWordCount(t)

\* /[a-zA-Z0-9]/.test(content)
HasAlphanumeric(t) == \E i \in 1..Len(t) : t[i].k \in {"alnum", "script", "iframe"}

getTextStatistics(t) ==
    IF IsBlank(t) THEN [words |-> 0, characters |-> 0]
    ELSE [words |-> countWords(t), characters |-> TextLength(t)]

\* RegExp.prototype.test of a regular expression with the g flag: the search
\* starts at lastIndex; a match moves lastIndex behind it, a miss resets it.
RegExpTestGlobal(t, block, lastIndex) ==
    LET hits == {i \in 1..Len(t) : t[i].k = block /\ Offset(t, i) >= lastIndex}
        first == CHOOSE i \in hits : \A j \in hits : i <= j
    IN  IF lastIndex > TextLength(t) \/ hits = {}
        THEN [found |-> FALSE, lastIndex |-> 0]
        ELSE [found |-> TRUE, lastIndex |-> Offset(t, first) + t[first].n]

validateLength(t) ==
    LET stats == getTextStatistics(t) IN
    (IF stats.characters < minCharacters THEN <<"min_characters">> ELSE <<>>)
    \o (IF stats.characters > maxCharacters THEN <<"max_characters">> ELSE <<>>)
    \o (IF stats.words < minWords THEN <<"min_words">> ELSE <<>>)
    \o (IF stats.words > maxWords THEN <<"max_words">> ELSE <<>>)

validateQuality(t) ==
    IF ~HasAlphanumeric(t) THEN <<"no_alphanumeric">> ELSE <<>>

\* forbiddenPatterns are tried in order and the loop stops at the first match;
\* li is the lastIndex of the two global patterns
validateSecurity(t, li) ==
    LET s == RegExpTestGlobal(t, "script", li.script)
        f == RegExpTestGlobal(t, "iframe", li.iframe)
    IN  IF IsBlank(t)
        THEN [errors |-> <<"forbidden_pattern">>, lastIndex |-> li]
        ELSE IF s.found
        THEN [errors |-> <<"forbidden_pattern">>,
              lastIndex |-> [script |-> s.lastIndex, iframe |-> li.iframe]]
        ELSE [errors |-> IF f.found THEN <<"forbidden_pattern">> ELSE <<>>,
              lastIndex |-> [script |-> s.lastIndex, iframe |-> f.lastIndex]]

validate(t, li) ==
    LET sec == validateSecurity(t, li)
        errors == validateLength(t) \o validateQuality(t) \o sec.errors
    IN  [isValid |-> errors = <<>>, errors |-> errors, lastIndex |-> sec.lastIndex]

(***************************************************************************)
(* Thrown values.  A message is a sequence of words.                       *)
(*   type "Error"          an Error object (name, message)                 *)
(*   type "AIServiceError" the plain object built by handleError           *)
(*   type "string"         any other thrown value                          *)
(***************************************************************************)
Err(name, message) ==
    [type |-> "Error", name |-> name, message |-> message, code |-> "", apiName |-> ""]

NonError ==
    [type |-> "string", name |-> "", message |-> <<"Unknown", "error", "type">>,
     code |-> "", apiName |-> ""]

None == [type |-> "none", name |-> "", message |-> <<>>, code |-> "", apiName |-> ""]

\* what the capability layer (the browser's built-in AI) may throw
ThrownValues ==
    { Err("NotSupportedError", <<"Not", "supported">>),
      Err("InvalidStateError", <<"Invalid", "state">>),
      Err("QuotaExceededError", <<"Quota", "exceeded">>),
      Err("Error", <<"Content", "is", "too", "long", "for", "processing">>),
      Err("NetworkError", <<"Network", "failed">>),
      Err("Error", <<"Operation", "failed">>),
      Err("Error", <<>>),
      NonError }

\* String.prototype.includes on word sequences
Includes(message, words) ==
    \E i \in 0..(Len(message) - Len(words)) :
        \A j \in 1..Len(words) : message[i + j] = words[j]

AIErrorCode ==
    {"API_UNAVAILABLE", "MODEL_NOT_READY", "RATE_LIMITED", "CONTENT_TOO_LONG",
     "PROCESSING_ERROR", "NETWORK_ERROR", "UNKNOWN_ERROR"}

\* ChromeAIService.handleError
handleError(error, operation) ==
    LET errorCode ==
            IF error.type = "Error" THEN
                IF error.name = "NotSupportedError" THEN "API_UNAVAILABLE"
                ELSE IF error.name = "InvalidStateError" THEN "MODEL_NOT_READY"
                ELSE IF error.name = "QuotaExceededError" THEN "RATE_LIMITED"
                ELSE IF Includes(error.message, <<"too", "long">>) THEN "CONTENT_TOO_LONG"
                ELSE IF error.name = "NetworkError" THEN "NETWORK_ERROR"
                ELSE "PROCESSING_ERROR"
            ELSE "UNKNOWN_ERROR"
    IN  [type |-> "AIServiceError", name |-> "", code |-> errorCode,
         message |-> <<"Failed", "to", operation>> \o
                     (IF error.type = "Error" THEN error.message
                      ELSE <<"Unknown", "error">>),
         apiName |-> operation]

(***************************************************************************)
(* The pipeline's steps                                                    *)
(***************************************************************************)
Kinds == {"Summarizer", "Rewriter", "Writer"}

\* the steps of processContent that await something, in order
Steps == <<"summarizing", "adapting", "creating_mindmap", "generating_audio",
           "creating_quiz">>

StepSet == {Steps[i] : i \in 1..Len(Steps)}

StepIndex(step) == CHOOSE i \in 1..Len(Steps) : Steps[i] = step

\* the ChromeAIService operation a step calls ("none": no external call)
StepKind(step) ==
    CASE step = "summarizing" -> "Summarizer"
      [] step = "adapting" -> "Rewriter"
      [] step = "creating_mindmap" -> "Writer"
      [] step = "creating_quiz" -> "Writer"
      [] OTHER -> "none"

CreateOperation(kind) ==
    CASE kind = "Summarizer" -> "createSummarizer"
      [] kind = "Rewriter" -> "createRewriter"
      [] OTHER -> "createWriter"

\* mutant: the adapting step reports a percent below the summary's checkpoint
InProgressPercentBehind(step) ==
    CASE step = "validation" -> 5
      [] step = "summarizing" -> 20
      [] step = "adapting" -> 30
      [] step = "creating_mindmap" -> 70
      [] step = "generating_audio" -> 85
      [] step = "creating_quiz" -> 95
      [] OTHER -> 99

\* the percent passed to updateProgress when a step starts / completes
InProgressPercent(step) ==
    CASE step = "validation" -> 5
      [] step = "summarizing" -> 20
      [] step = "adapting" -> 45
      [] step = "creating_mindmap" -> 70
      [] step = "generating_audio" -> 85
      [] step = "creating_quiz" -> 95
      [] OTHER -> 99

CompletedPercent(step) ==
    CASE step = "validation" -> 10
      [] step = "summarizing" -> 35
      [] step = "adapting" -> 60
      [] step = "creating_mindmap" -> 80
      [] step = "generating_audio" -> 90
      [] step = "creating_quiz" -> 98
      [] OTHER -> 100

(***************************************************************************)
(* Inputs                                                                  *)
(***************************************************************************)
\* the texts a caller may pass to processContent
Contents ==
    << Words(10, 5),                                         \* 59 characters, 10 words
       <<Seg("alnum", 10)>>,                                 \* 10 characters
       Words(10, 5) \o <<Seg("space", 1), Seg("script", 25)>> >>

AvailabilityStatus == {"readily", "after-download", "no"}

(***************************************************************************)
(* State                                                                   *)
(***************************************************************************)
VARIABLES
    run,              \* run[r]: the locals of the r-th processContent invocation
    apiPresent,       \* apiPresent[k]: globalThis.<k> is defined
    lastIndex,        \* lastIndex of textValidator's two global forbiddenPatterns
    abortController,  \* contentProcessor.abortController: the run that made it, 0 = undefined
    controllerAborted,\* controllerAborted[r]: the AbortController made by run r is aborted
    cancelled,        \* cancelled[r]: stats.apiCalls of run r when its token was cancelled, -1 = not cancelled
    sessions,         \* localStorage['learnsphere-sessions']: the stored SessionData, first = newest
    storageLog,       \* what the callers of storageService did so far (ids handed out, insertion times, call counts)
    hook,             \* the state, the ref and the pending createSession calls of one useSession hook
    generated,        \* the last material a generate function of ContentProcessor returned, with its inputs
    app               \* the state of the App component and the position of its processContent call

sessionVars == <<sessions, storageLog, hook, generated, app>>

vars == <<run, apiPresent, lastIndex, abortController, controllerAborted, cancelled,
          sessions, storageLog, hook, generated, app>>

NotCancelled == -1

SessionIds == 1..MaxSessionIds

\* no call of storageService yet: issued = ids handed out, insertedAt[id] = the
\* insertion that put id into the store (0: never), otherCalls = calls other
\* than the saveSession of a fresh id, lastRead = what the last getSession gave
InitStorageLog ==
    [issued |-> 0, insertions |-> 0, insertedAt |-> [id \in SessionIds |-> 0],
     otherCalls |-> 0, lastRead |-> "none"]

\* no generate function has returned yet
NotGenerated == [kind |-> "none"]

\* currentSession: null
NoSession == [id |-> 0, status |-> "none"]

\* error: null
NullError == [isNull |-> TRUE, message |-> <<>>]

ErrorMessage(message) == [isNull |-> FALSE, message |-> message]

\* the locals of a createSession call that awaits run r
NoInvocation == [pc |-> "none", sessionId |-> 0, closureSession |-> FALSE]

\* useState / useRef of useSession on mount, the store being empty;
\* validation: the last result textValidator.validate gave the hook;
\* createCalls: the number of createSession calls so far, modulo 2;
\* progressSeen[r]: the entries run r had passed to onProgress when the hook
\* last set progress to null (progress is null while no run passed one since);
\* abortedRuns: the runs that were awaited when abortProcessing was called
InitHook ==
    [currentSession |-> NoSession, isProcessing |-> FALSE, error |-> NullError,
     savedSessions |-> <<>>, processingRef |-> FALSE,
     invocation |-> [r \in Runs |-> NoInvocation],
     validation |-> [content |-> 0, isValid |-> FALSE, errors |-> <<>>],
     createCalls |-> 0,
     progressSeen |-> [r \in Runs |-> 0],
     abortedRuns |-> {}]

\* useState of App: the input step with no content; the support check of the
\* mount effect is pending
InitApp ==
    [currentStep |-> "input", content |-> 0, gradeLevel |-> "", interest |-> "",
     isProcessing |-> FALSE, error |-> FALSE, supported |-> FALSE, effect |-> "pending",
     pc |-> "idle", calls |-> {}, startedWith |-> {}]

InitRun ==
    [pc |-> "idle", step |-> "none", content |-> 0, includeValidation |-> TRUE,
     valid |-> "skipped",
     hasSignal |-> FALSE, apiCalls |-> 0, stepTimes |-> {}, progress |-> <<>>,
     calls |-> <<>>, handles |-> <<>>, results |-> <<>>, rejections |-> <<>>,
     raised |-> None, raisedAt |-> "none", opRejection |-> None]

Init ==
    /\ run = [r \in Runs |-> InitRun]
    /\ apiPresent \in [Kinds -> BOOLEAN]
    /\ lastIndex = [script |-> 0, iframe |-> 0]
    /\ abortController = 0
    /\ controllerAborted = [r \in Runs |-> FALSE]
    /\ cancelled = [r \in Runs |-> NotCancelled]
    /\ sessions = <<>>
    /\ storageLog = InitStorageLog
    /\ hook = InitHook
    /\ generated = NotGenerated
    /\ app = InitApp

(***************************************************************************)
(* ContentProcessor, on the locals st of one run                           *)
(***************************************************************************)
\* the onProgress callback receives one GenerationProgress entry
updateProgress(st, step, status, progress) ==
    [st EXCEPT !.progress =
        Append(@, [step |-> step, status |-> status, progress |-> progress])]

Called(st, op) == [st EXCEPT !.calls = Append(@, [op |-> op, step |-> st.step])]

\* the catch block of processContent: the promise resolves with a failed result
Catch(st, error) ==
    LET errorMessage == IF error.type = "Error" THEN error.message
                        ELSE <<"Unknown", "processing", "error">>
        st1 == updateProgress(st, "error", "error", 0)
    IN  [st1 EXCEPT
            !.pc = "done",
            !.results = Append(@, [success |-> FALSE, materials |-> FALSE,
                                   hasError |-> TRUE, error |-> errorMessage,
                                   apiCalls |-> st.apiCalls,
                                   stepTimes |-> st.stepTimes])]

\* a ChromeAIService operation rejects with `rejection`; generateSummary and
\* its siblings do not catch, so the rejection reaches processContent's catch
OperationRejects(st, rejection) ==
    Catch([st EXCEPT !.opRejection = rejection], rejection)

\* createSummarizer / createRewriter / createWriter up to their first await
CreateStart(st, present) ==
    LET kind == StepKind(st.step) IN
    IF ~present[kind]
    THEN OperationRejects(st, Err("Error", <<kind, "API", "not", "available">>))
    ELSE [Called(st, "availability") EXCEPT !.pc = "availability"]

\* a step starts: its in_progress entry, then the call of its generate function
BeginStep(st, step, present) ==
    LET st1 == updateProgress([st EXCEPT !.step = step], step, "in_progress",
                              InProgressPercent(step))
    IN  IF StepKind(step) = "none"
        THEN [st1 EXCEPT !.pc = "audio"]
        ELSE CreateStart(st1, present)

\* Step 7: the materials are assembled and the promise resolves
Finalize(st) ==
    LET st1 == updateProgress(st, "finalizing", "in_progress", InProgressPercent("finalizing"))
        st2 == updateProgress(st1, "finalizing", "completed", CompletedPercent("finalizing"))
    IN  [st2 EXCEPT
            !.pc = "done",
            !.step = "finalizing",
            !.results = Append(@, [success |-> TRUE, materials |-> TRUE,
                                   hasError |-> FALSE, error |-> <<>>,
                                   apiCalls |-> st.apiCalls,
                                   stepTimes |-> st.stepTimes])]

\* the statistics a step adds once its await has returned
StepStats(st) ==
    [st EXCEPT !.stepTimes = @ \cup {st.step},
               !.apiCalls = IF st.step = "generating_audio" THEN @ ELSE @ + 1]

\* the await of a step returns: statistics, the completed entry, the next step
CompleteStep(st, present) ==
    LET st1 == StepStats(st)
        st2 == updateProgress(st1, st.step, "completed", CompletedPercent(st.step))
        i == StepIndex(st.step)
    IN  IF i = Len(Steps) THEN Finalize(st2)
        ELSE BeginStep(st2, Steps[i + 1], present)

\* mutant: a failed validation is reported but does not end the run
ValidateContentNoThrow(st, v, present) ==
    LET st1 == updateProgress(st, "validation", "in_progress",
                              InProgressPercent("validation"))
        st2 == updateProgress(st1, "validation", "completed",
                              CompletedPercent("validation"))
    IN  BeginStep([st2 EXCEPT !.valid = IF v.isValid THEN "valid" ELSE "invalid"],
                  Steps[1], present)

\* Step 1, when includeValidation is not false: v is textValidator.validate(content)
ValidateContent(st, v, present) ==
    LET st1 == updateProgress(st, "validation", "in_progress",
                              InProgressPercent("validation"))
        st2 == updateProgress(st1, "validation", "completed",
                              CompletedPercent("validation"))
    IN  IF ~v.isValid
        THEN Catch([st1 EXCEPT !.valid = "invalid"],
                   Err("Error", <<"Content", "validation", "failed:">> \o v.errors))
        ELSE BeginStep([st2 EXCEPT !.valid = "valid"], Steps[1], present)

(***************************************************************************)
(* ChromeAIService, on the locals st of the run that called it             *)
(***************************************************************************)
\* the value the capability layer threw, and where
Raised(st, value, at) == [st EXCEPT !.raised = value, !.raisedAt = at]

\* createX after `await API.availability()` resolved with `status`
OnAvailability(st, status) ==
    LET kind == StepKind(st.step) IN
    IF status = "no"
    THEN OperationRejects(Raised(st, None, "unavailable"),
            handleError(Err("Error", <<kind, "is", "not", "available">>),
                        CreateOperation(kind)))
    ELSE [Called(st, "create") EXCEPT !.pc = "create"]

\* createX when availability() or create() rejected with `value`
OnCreateFailure(st, value) ==
    OperationRejects(Raised(st, value, st.pc),
        handleError(value, CreateOperation(StepKind(st.step))))

\* summarize / rewrite / write once createX returned the handle: the transform
\* call is issued on it
OnCreated(st) ==
    [Called([st EXCEPT !.handles = Append(@, [kind |-> StepKind(st.step),
                                              step |-> st.step,
                                              destroys |-> 0])],
            "transform")
        EXCEPT !.pc = "transform"]

\* handle.destroy() on the handle of the current call
destroy(st) ==
    [Called(st, "destroy") EXCEPT !.handles[Len(st.handles)].destroys = @ + 1]

\* what summarize / rewrite / write reject with when the transform call threw
\* `value`: try { return await handle.transform() } finally { destroy() }
TransformFailure(value, operation) == value

\* number of calls `op` the run has issued for `step`
CallCount(st, op, step) ==
    Cardinality({i \in DOMAIN st.calls : st.calls[i].op = op /\ st.calls[i].step = step})

\* mutant: the handle is destroyed on the success path only (no finally)
OnTransformRejectedNoFinally(st, value) ==
    OperationRejects(Raised(st, value, "transform"),
        TransformFailure(value, StepKind(st.step)))

\* mutant: a failed transform call is retried once on the same handle
OnTransformRejectedRetry(st, value) ==
    IF CallCount(st, "transform", st.step) < 2
    THEN Called(st, "transform")
    ELSE OperationRejects(Raised(destroy(st), value, "transform"),
            TransformFailure(value, StepKind(st.step)))

OnTransformRejected(st, value) ==
    OperationRejects(Raised(destroy(st), value, "transform"),
        TransformFailure(value, StepKind(st.step)))

\* mutant: the handle stays alive after its transform call resolved
OnTransformResolvedNoDestroy(st, present) == CompleteStep(st, present)

OnTransformResolved(st, present) == CompleteStep(destroy(st), present)

Done(r) == run[r].pc = "done"

\* the GenerationResult of a finished run
Result(r) == run[r].results[1]

(***************************************************************************)
(* Actions                                                                 *)
(***************************************************************************)
NoCancel == UNCHANGED <<abortController, controllerAborted, cancelled>>

\* processContent is called and runs up to its first await; the caller draws
\* the content, includeValidation and whether it passes a signal
ProcessContent(r, contents, validations, signals) ==
    \E c \in contents, iv \in validations, sig \in signals :
        LET st0 == [run[r] EXCEPT !.content = c, !.includeValidation = iv,
                                  !.hasSignal = sig]
            v == validate(Contents[c], lastIndex)
        IN  /\ run[r].pc = "idle"
            /\ \A q \in Runs : q < r => run[q].pc # "idle"
            /\ abortController' = r
            /\ lastIndex' = IF iv THEN v.lastIndex ELSE lastIndex
            /\ run' = [run EXCEPT ![r] =
                          IF iv THEN ValidateContent(st0, v, apiPresent)
                          ELSE BeginStep(st0, Steps[1], apiPresent)]
            /\ UNCHANGED <<apiPresent, controllerAborted, cancelled>>
            /\ UNCHANGED sessionVars

AvailabilityResolvesWith(r, statuses) ==
    /\ run[r].pc = "availability"
    /\ \E status \in statuses :
           run' = [run EXCEPT ![r] = OnAvailability(run[r], status)]
    /\ UNCHANGED <<apiPresent, lastIndex>> /\ NoCancel /\ UNCHANGED sessionVars

AvailabilityResolves(r) == AvailabilityResolvesWith(r, AvailabilityStatus)

AvailabilityRejects(r, values) ==
    /\ run[r].pc = "availability"
    /\ \E value \in values :
           run' = [run EXCEPT ![r] = OnCreateFailure(run[r], value)]
    /\ UNCHANGED <<apiPresent, lastIndex>> /\ NoCancel /\ UNCHANGED sessionVars

CreateResolves(r) ==
    /\ run[r].pc = "create"
    /\ run' = [run EXCEPT ![r] = OnCreated(run[r])]
    /\ UNCHANGED <<apiPresent, lastIndex>> /\ NoCancel /\ UNCHANGED sessionVars

CreateRejects(r, values) ==
    /\ run[r].pc = "create"
    /\ \E value \in values :
           run' = [run EXCEPT ![r] = OnCreateFailure(run[r], value)]
    /\ UNCHANGED <<apiPresent, lastIndex>> /\ NoCancel /\ UNCHANGED sessionVars

TransformResolves(r) ==
    /\ run[r].pc = "transform"
    /\ run' = [run EXCEPT ![r] = OnTransformResolved(run[r], apiPresent)]
    /\ UNCHANGED <<apiPresent, lastIndex>> /\ NoCancel /\ UNCHANGED sessionVars

TransformRejects(r, values) ==
    /\ run[r].pc = "transform"
    /\ \E value \in values :
           run' = [run EXCEPT ![r] = OnTransformRejected(run[r], value)]
    /\ UNCHANGED <<apiPresent, lastIndex>> /\ NoCancel /\ UNCHANGED sessionVars

\* `await this.generateAudioLesson(...)` returns; it makes no external call
AudioResolves(r) ==
    /\ run[r].pc = "audio"
    /\ run' = [run EXCEPT ![r] = CompleteStep(run[r], apiPresent)]
    /\ UNCHANGED <<apiPresent, lastIndex>> /\ NoCancel /\ UNCHANGED sessionVars

\* this.abortController?.abort()
AbortCurrent ==
    IF abortController = 0 THEN controllerAborted
    ELSE [controllerAborted EXCEPT ![abortController] = TRUE]

\* the token of run r is cancelled now; a caller cancels a run while it is in
\* flight, and at most once
MarkCancelled(r) == [cancelled EXCEPT ![r] = run[r].apiCalls]

\* the caller aborts options.signal of run r: the listener that processContent
\* registered runs
SignalAbort(r) ==
    /\ run[r].pc \notin {"idle", "done"}
    /\ run[r].hasSignal
    /\ cancelled[r] = NotCancelled
    /\ controllerAborted' = AbortCurrent
    /\ cancelled' = MarkCancelled(r)
    /\ UNCHANGED <<run, apiPresent, lastIndex, abortController>>
    /\ UNCHANGED sessionVars

\* the caller of run r cancels it with ContentProcessor.abort()
Abort(r) ==
    /\ run[r].pc \notin {"idle", "done"}
    /\ cancelled[r] = NotCancelled
    /\ controllerAborted' = AbortCurrent
    /\ cancelled' = MarkCancelled(r)
    /\ UNCHANGED <<run, apiPresent, lastIndex, abortController>>
    /\ UNCHANGED sessionVars

(***************************************************************************)
(* Spec: one processContent invocation, with every input and every value   *)
(* the capability layer may throw.                                         *)
(***************************************************************************)
Next ==
    \/ ProcessContent(1, 1..Len(Contents), BOOLEAN, BOOLEAN)
    \/ AvailabilityResolves(1)
    \/ AvailabilityRejects(1, ThrownValues)
    \/ CreateResolves(1)
    \/ CreateRejects(1, ThrownValues)
    \/ TransformResolves(1)
    \/ TransformRejects(1, ThrownValues)
    \/ AudioResolves(1)
    \/ SignalAbort(1)
    \/ Abort(1)

Spec == Init /\ [][Next]_vars

(***************************************************************************)
(* SpecConcurrent: NumRuns invocations on the shared contentProcessor,     *)
(* interleaved at their await points; valid content, every API present,    *)
(* one thrown value.                                                       *)
(***************************************************************************)
OperationFailed == Err("Error", <<"Operation", "failed">>)

InitConcurrent ==
    /\ Init
    /\ \A k \in Kinds : apiPresent[k]

NextConcurrent ==
    \E r \in Runs :
        \/ ProcessContent(r, {1}, {TRUE}, {TRUE})
        \/ AvailabilityResolves(r)
        \/ AvailabilityRejects(r, {OperationFailed})
        \/ CreateResolves(r)
        \/ CreateRejects(r, {OperationFailed})
        \/ TransformResolves(r)
        \/ TransformRejects(r, {OperationFailed})
        \/ AudioResolves(r)
        \/ SignalAbort(r)
        \/ Abort(r)

SpecConcurrent == InitConcurrent /\ [][NextConcurrent]_vars

(***************************************************************************)
(* StorageService (utils/storage), on the stored list                      *)
(***************************************************************************)
SessionData(id, title) == [id |-> id, title |-> title]

\* sessions.findIndex(s => s.id === id), 1-based; 0 = not found
findIndex(list, id) ==
    IF \E i \in DOMAIN list : list[i].id = id
    THEN CHOOSE i \in DOMAIN list :
             list[i].id = id /\ \A j \in DOMAIN list : list[j].id = id => i <= j
    ELSE 0

\* mutant: the list is not cut after the insertion
saveSessionNoSplice(list, session) ==
    LET existingIndex == findIndex(list, session.id) IN
    IF existingIndex > 0 THEN [list EXCEPT ![existingIndex] = session]
    ELSE <<session>> \o list

\* mutant: an update moves the session to the front (most recently used first)
saveSessionMoveToFront(list, session) ==
    LET existingIndex == findIndex(list, session.id)
        unshifted == <<session>> \o list
    IN  IF existingIndex > 0
        THEN <<session>> \o SubSeq(list, 1, existingIndex - 1)
                         \o SubSeq(list, existingIndex + 1, Len(list))
        ELSE IF Len(unshifted) > MAX_SESSIONS THEN SubSeq(unshifted, 1, MAX_SESSIONS)
        ELSE unshifted

\* StorageService.saveSession: the list written back to localStorage
saveSession(list, session) ==
    LET existingIndex == findIndex(list, session.id)
        unshifted == <<session>> \o list
    IN  IF existingIndex > 0 THEN [list EXCEPT ![existingIndex] = session]
        ELSE IF Len(unshifted) > MAX_SESSIONS THEN SubSeq(unshifted, 1, MAX_SESSIONS)
        ELSE unshifted

\* StorageService.getSession: "found" / "missing" (null)
getSession(list, id) == IF findIndex(list, id) > 0 THEN "found" ELSE "missing"

\* StorageService.deleteSession: sessions.filter(session => session.id !== id)
deleteSession(list, id) ==
    LET keep(session) == session.id # id IN SelectSeq(list, keep)

\* StorageService.clearAllSessions: the key is removed, getAllSessions reads []
clearAllSessions == <<>>

\* the ids of the stored sessions
StoredIds(list) == {list[i].id : i \in DOMAIN list}

\* bookkeeping of a saveSession(id): a new id is one more insertion
LogSave(log, list, id) ==
    IF id \in StoredIds(list) THEN log
    ELSE [log EXCEPT !.insertions = @ + 1, !.insertedAt[id] = log.insertions + 1]

(***************************************************************************)
(* Actions of the callers of storageService                                *)
(***************************************************************************)
PipelineIdle ==
    UNCHANGED <<run, apiPresent, lastIndex, abortController, controllerAborted, cancelled, hook,
               generated, app>>

\* saveSession of a session with a fresh id from generateSessionId
SaveNewSession ==
    LET id == storageLog.issued + 1 IN
    /\ storageLog.issued < MaxSessionIds
    /\ sessions' = saveSession(sessions, SessionData(id, "a"))
    /\ storageLog' = [LogSave(storageLog, sessions, id) EXCEPT !.issued = id]
    /\ PipelineIdle

\* saveSession of a session whose id was handed out before (saveCurrentSession):
\* an update in place when the id is still stored
SaveKnownSession ==
    \E id \in 1..storageLog.issued :
        /\ storageLog.otherCalls < MaxOtherCalls
        /\ sessions' = saveSession(sessions, SessionData(id, "b"))
        /\ storageLog' = [LogSave(storageLog, sessions, id) EXCEPT !.otherCalls = @ + 1]
        /\ PipelineIdle

GetSession ==
    \E id \in 1..storageLog.issued :
        /\ storageLog.otherCalls < MaxOtherCalls
        /\ storageLog' = [storageLog EXCEPT !.otherCalls = @ + 1,
                                             !.lastRead = getSession(sessions, id)]
        /\ UNCHANGED sessions
        /\ PipelineIdle

DeleteSession ==
    \E id \in 1..storageLog.issued :
        /\ storageLog.otherCalls < MaxOtherCalls
        /\ sessions' = deleteSession(sessions, id)
        /\ storageLog' = [storageLog EXCEPT !.otherCalls = @ + 1]
        /\ PipelineIdle

ClearAllSessions ==
    /\ storageLog.otherCalls < MaxOtherCalls
    /\ sessions' = clearAllSessions
    /\ storageLog' = [storageLog EXCEPT !.otherCalls = @ + 1]
    /\ PipelineIdle

(***************************************************************************)
(* SpecStorage: the calls of storageService on an empty store              *)
(***************************************************************************)
InitStorage ==
    /\ Init
    /\ \A k \in Kinds : apiPresent[k]

NextStorage ==
    \/ SaveNewSession
    \/ SaveKnownSession
    \/ GetSession
    \/ DeleteSession
    \/ ClearAllSessions

SpecStorage == InitStorage /\ [][NextStorage]_vars

(***************************************************************************)
(* useSession (hooks/useSession), on the hook state h                      *)
(***************************************************************************)
\* mutant: the catch block records the error and leaves isProcessing set
CreateSessionCatchStillProcessing(h, message, closureSession) ==
    [h EXCEPT
        !.error = ErrorMessage(message),
        !.currentSession =
            IF closureSession /\ @ # NoSession THEN [@ EXCEPT !.status = "error"] ELSE @,
        !.processingRef = FALSE]

\* the catch and finally blocks of createSession; closureSession: the
\* callback's state.currentSession was not null
CreateSessionCatch(h, message, closureSession) ==
    [h EXCEPT
        !.isProcessing = FALSE,
        !.error = ErrorMessage(message),
        !.currentSession =
            IF closureSession /\ @ # NoSession THEN [@ EXCEPT !.status = "error"] ELSE @,
        !.processingRef = FALSE]

\* the hook's saveSession after storageService.saveSession returned true
SavedSessionsUpdate(saved, id) ==
    IF \E i \in DOMAIN saved : saved[i] = id THEN saved ELSE Append(saved, id)

\* mutant: the validation result is ignored and the pipeline starts
CreateSessionStartNoCheck(h, r, c, v, id) ==
    [h EXCEPT
        !.isProcessing = TRUE,
        !.error = NullError,
        !.validation = [content |-> c, isValid |-> v.isValid, errors |-> v.errors],
        !.createCalls = (@ + 1) % 2,
        !.currentSession = [id |-> id, status |-> "processing"],
        !.invocation[r] = [pc |-> "awaiting", sessionId |-> id,
                           closureSession |-> h.currentSession # NoSession]]

\* createSession up to its await of processContent; v is
\* textValidator.validate(content), id the id generateSessionId returned
CreateSessionStart(h, r, c, v, id) ==
    LET h1 == [h EXCEPT
                  !.isProcessing = TRUE,
                  !.error = NullError,
                  !.validation = [content |-> c, isValid |-> v.isValid, errors |-> v.errors],
                  !.createCalls = (@ + 1) % 2]
    IN  IF ~v.isValid
        THEN CreateSessionCatch(h1, <<"Content", "validation", "failed:">> \o v.errors,
                                h.currentSession # NoSession)
        ELSE [h1 EXCEPT
                 !.currentSession = [id |-> id, status |-> "processing"],
                 !.invocation[r] = [pc |-> "awaiting", sessionId |-> id,
                                    closureSession |-> h.currentSession # NoSession]]

\* createSession after processContent resolved with `result`; saved: whether
\* storageService.saveSession returned true
CreateSessionResume(h, r, result, saved) ==
    LET inv == h.invocation[r]
        h1 == [h EXCEPT !.processingRef = TRUE, !.invocation[r].pc = "done"]
        completed == [h1 EXCEPT
                         !.currentSession = [id |-> inv.sessionId, status |-> "completed"],
                         !.isProcessing = FALSE]
    IN  IF result.success /\ result.materials
        THEN IF saved
             THEN [completed EXCEPT
                      !.savedSessions = SavedSessionsUpdate(@, inv.sessionId),
                      !.processingRef = FALSE]
             ELSE CreateSessionCatch(completed,
                      <<"Failed", "to", "save", "session", "to", "storage">>,
                      inv.closureSession)
        ELSE CreateSessionCatch(h1,
                 IF result.error # <<>> THEN result.error ELSE <<"Processing", "failed">>,
                 inv.closureSession)

\* abortProcessing on the hook state
abortProcessing(h) ==
    [h EXCEPT
        !.processingRef = FALSE,
        !.isProcessing = FALSE,
        !.error = ErrorMessage(<<"Processing", "was", "cancelled">>),
        !.abortedRuns = @ \cup {r \in Runs : h.invocation[r].pc = "awaiting"}]

\* the hook's deleteSession after storageService.deleteSession returned true
deleteSessionUpdate(h, id) ==
    LET keep(s) == s # id IN
    [h EXCEPT
        !.savedSessions = SelectSeq(@, keep),
        !.currentSession = IF @.id = id THEN NoSession ELSE @]

(***************************************************************************)
(* Actions of the user of the hook                                         *)
(***************************************************************************)
\* the entries each run passed to onProgress so far
ProgressLengths == [r \in Runs |-> Len(run[r].progress)]

\* state.progress is null
ProgressIsNull == hook.progressSeen = ProgressLengths

\* createSession(content, preferences) on one of `runs` runs up to its first
\* await; a valid content starts processContent with includeValidation: false
\* and no signal
CreateSessionOn(contents, runs) ==
    \E c \in contents, r \in runs :
        LET v == validate(Contents[c], lastIndex)
            id == storageLog.issued + 1
            st0 == [run[r] EXCEPT !.content = c, !.includeValidation = FALSE]
        IN  /\ run[r].pc = "idle"
            /\ \A q \in runs : q < r => run[q].pc # "idle"
            /\ storageLog.issued < MaxSessionIds
            /\ lastIndex' = v.lastIndex
            /\ hook' = [CreateSessionStart(hook, r, c, v, id)
                           EXCEPT !.progressSeen = ProgressLengths]
            /\ IF hook'.invocation[r].pc = "awaiting"
               THEN /\ run' = [run EXCEPT ![r] = BeginStep(st0, Steps[1], apiPresent)]
                    /\ abortController' = r
                    /\ storageLog' = [storageLog EXCEPT !.issued = id]
               ELSE UNCHANGED <<run, abortController, storageLog>>
            /\ UNCHANGED <<apiPresent, controllerAborted, cancelled, sessions, generated, app>>

CreateSession(contents) == CreateSessionOn(contents, Runs)

\* validateContent(content): the hook hands the text to textValidator.validate
ValidateContentCall(contents) ==
    \E c \in contents :
        LET v == validate(Contents[c], lastIndex) IN
        /\ lastIndex' = v.lastIndex
        /\ hook' = [hook EXCEPT !.validation =
                        [content |-> c, isValid |-> v.isValid, errors |-> v.errors]]
        /\ UNCHANGED <<run, apiPresent, abortController, controllerAborted, cancelled,
                       sessions, storageLog, generated, app>>

\* the await of processContent in createSession returns; the completed
\* session is saved, which fails when localStorage refuses the write
\* (outcomes: what storageService.saveSession may return)
CreateSessionResumesWith(r, outcomes) ==
    /\ hook.invocation[r].pc = "awaiting"
    /\ run[r].pc = "done"
    /\ \E saved \in outcomes :
          LET result == Result(r)
              id == hook.invocation[r].sessionId
              writes == result.success /\ result.materials /\ saved
          IN  /\ hook' = [CreateSessionResume(hook, r, result, saved)
                             EXCEPT !.progressSeen = ProgressLengths]
              /\ sessions' = IF writes THEN saveSession(sessions, SessionData(id, "a"))
                             ELSE sessions
              /\ storageLog' = IF writes THEN LogSave(storageLog, sessions, id)
                               ELSE storageLog
    /\ UNCHANGED <<run, apiPresent, lastIndex, abortController, controllerAborted, cancelled,
                   generated, app>>

CreateSessionResumes(r) == CreateSessionResumesWith(r, BOOLEAN)

\* abortProcessing(): processingRef.current?.abort(), then the state update
AbortProcessing ==
    /\ controllerAborted' = IF hook.processingRef THEN AbortCurrent ELSE controllerAborted
    /\ hook' = [abortProcessing(hook) EXCEPT !.progressSeen = ProgressLengths]
    /\ UNCHANGED <<run, apiPresent, lastIndex, abortController, cancelled,
                   sessions, storageLog, generated, app>>

\* saveCurrentSession() with a current session, the store accepting the write
SaveCurrentSession ==
    LET id == hook.currentSession.id IN
    /\ hook.currentSession # NoSession
    /\ storageLog.otherCalls < MaxOtherCalls
    /\ sessions' = saveSession(sessions, SessionData(id, "b"))
    /\ storageLog' = [LogSave(storageLog, sessions, id) EXCEPT !.otherCalls = @ + 1]
    /\ hook' = [hook EXCEPT !.savedSessions = SavedSessionsUpdate(@, id)]
    /\ UNCHANGED <<run, apiPresent, lastIndex, abortController, controllerAborted, cancelled,
                   generated, app>>

\* deleteSession(sessionId) of the hook, for a session it lists or the store
\* holds
HookDeleteSession ==
    \E id \in StoredIds(sessions) \cup {hook.savedSessions[i] : i \in DOMAIN hook.savedSessions} :
        /\ storageLog.otherCalls < MaxOtherCalls
        /\ sessions' = deleteSession(sessions, id)
        /\ storageLog' = [storageLog EXCEPT !.otherCalls = @ + 1]
        /\ hook' = deleteSessionUpdate(hook, id)
        /\ UNCHANGED <<run, apiPresent, lastIndex, abortController, controllerAborted,
                       cancelled, generated, app>>

\* the createSession call that awaited run r has returned: its locals and
\* those of the finished run are dropped, the next call may use the slot
Release(r) ==
    /\ hook.invocation[r].pc = "done"
    /\ run[r].pc = "done"
    /\ run' = [run EXCEPT ![r] = InitRun]
    /\ hook' = [hook EXCEPT !.invocation[r] = NoInvocation,
                            !.progressSeen[r] = 0,
                            !.abortedRuns = @ \ {r}]
    /\ UNCHANGED <<apiPresent, lastIndex, abortController, controllerAborted, cancelled,
                   sessions, storageLog, generated, app>>

(***************************************************************************)
(* SpecSession: one useSession hook on the shared textValidator,           *)
(* contentProcessor and storageService                                     *)
(***************************************************************************)
NextSession ==
    \/ CreateSession(1..Len(Contents))
    \/ ValidateContentCall(1..Len(Contents))
    \/ \E r \in Runs :
          \/ CreateSessionResumes(r)
          \/ AvailabilityResolves(r)
          \/ CreateResolves(r)
          \/ TransformResolves(r)
          \/ TransformRejects(r, {OperationFailed})
          \/ AudioResolves(r)

SpecSession == Init /\ [][NextSession]_vars

(***************************************************************************)
(* SpecHook: createSession calls of one hook of which one reaches the      *)
(* pipeline, and abortProcessing at any moment; SpecHookFair: every         *)
(* capability call settles and every continuation runs                     *)
(***************************************************************************)
NextHook ==
    \/ CreateSessionOn(1..Len(Contents), {1})
    \/ AbortProcessing
    \/ CreateSessionResumes(1)
    \/ AvailabilityResolves(1)
    \/ CreateResolves(1)
    \/ TransformResolves(1)
    \/ TransformRejects(1, {OperationFailed})
    \/ AudioResolves(1)

SpecHook == Init /\ [][NextHook]_vars

SpecHookFair ==
    /\ SpecHook
    /\ WF_vars(AvailabilityResolves(1))
    /\ WF_vars(CreateResolves(1))
    /\ WF_vars(TransformResolves(1) \/ TransformRejects(1, {OperationFailed}))
    /\ WF_vars(AudioResolves(1))
    /\ WF_vars(CreateSessionResumes(1))

(***************************************************************************)
(* SpecHookStore: successful createSession, saveCurrentSession and         *)
(* deleteSession calls of one hook, one after the other, on an empty store *)
(***************************************************************************)
\* the saveCurrentSession and deleteSession calls of a behaviour
MaxHookCalls == 2

\* no createSession call is pending, and one more call of the two is allowed
NoCallPending ==
    /\ \A r \in Runs : hook.invocation[r].pc = "none"
    /\ storageLog.otherCalls < MaxHookCalls

NextHookStore ==
    \/ CreateSessionOn({1}, {1})
    \/ AvailabilityResolvesWith(1, {"readily"})
    \/ CreateResolves(1)
    \/ TransformResolves(1)
    \/ AudioResolves(1)
    \/ CreateSessionResumesWith(1, {TRUE})
    \/ Release(1)
    \/ NoCallPending /\ SaveCurrentSession
    \/ NoCallPending /\ HookDeleteSession

SpecHookStore == InitStorage /\ [][NextHookStore]_vars

(***************************************************************************)
(* The materials ContentProcessor builds from a capability's response      *)
(***************************************************************************)
GradeLevels ==
    {"1", "2", "3", "4", "5", "6", "7", "8", "9", "10", "11", "12", "undergrad"}

Interests ==
    {"reading", "science", "art", "writing", "photography", "nature", "soccer",
     "cycling", "cooking", "gaming", "basketball", "football", "table_tennis",
     "tennis", "technology", "skateboarding"}

\* the texts chromeAIService.write may resolve with, as sequences of words
Responses == {<<>>, <<"Q1:", "What", "is", "it?">>}

\* GRADE_LEVEL_INFO[gradeLevel].complexity
Complexity(gradeLevel) ==
    IF gradeLevel \in {"1", "2", "3", "4", "5"} THEN "elementary"
    ELSE IF gradeLevel \in {"6", "7", "8"} THEN "middle"
    ELSE IF gradeLevel \in {"9", "10", "11", "12"} THEN "high"
    ELSE "college"

\* mutant: the college bucket falls through to the default branch
mapGradeToDifficultyNoCollege(gradeLevel) ==
    CASE Complexity(gradeLevel) = "elementary" -> "easy"
      [] Complexity(gradeLevel) = "middle" -> "medium"
      [] Complexity(gradeLevel) = "high" -> "hard"
      [] OTHER -> "medium"

mapGradeToDifficulty(gradeLevel) ==
    CASE Complexity(gradeLevel) = "elementary" -> "easy"
      [] Complexity(gradeLevel) = "middle" -> "medium"
      [] Complexity(gradeLevel) \in {"high", "college"} -> "hard"
      [] OTHER -> "medium"

\* the option ids of a question, in order
OptionIds == <<"a", "b", "c", "d">>

\* mutant: option d of the last question is marked correct as well
parseQuizQuestionsTwoCorrect(response, difficulty) ==
    LET basePoints == IF difficulty = "easy" THEN 2
                      ELSE IF difficulty = "medium" THEN 3 ELSE 4
    IN  [index \in 1..3 |->
            [id |-> index,
             options |-> [o \in 1..4 |->
                             [id |-> OptionIds[o],
                              isCorrect |-> (o = index) \/ (o = 4 /\ index = 3)]],
             correctAnswer |-> OptionIds[index],
             points |-> basePoints,
             difficulty |-> difficulty]]

\* ContentProcessor.parseQuizQuestions: the response is not read; index runs
\* from 1 here, from 0 in Array.from
parseQuizQuestions(response, difficulty) ==
    LET basePoints == IF difficulty = "easy" THEN 2
                      ELSE IF difficulty = "medium" THEN 3 ELSE 4
    IN  [index \in 1..3 |->
            [id |-> index,
             options |-> [o \in 1..4 |->
                             [id |-> OptionIds[o],
                              isCorrect |-> IF o = 4 THEN FALSE ELSE o = index]],
             correctAnswer |-> OptionIds[index],
             points |-> basePoints,
             difficulty |-> difficulty]]

RECURSIVE SumPoints(_)
\* questions.reduce((sum, q) => sum + q.points, 0)
SumPoints(questions) ==
    IF questions = <<>> THEN 0
    ELSE questions[1].points + SumPoints(Tail(questions))

\* ContentProcessor.generateQuiz once chromeAIService.write resolved with
\* quizResponse
generateQuiz(quizResponse, gradeLevel, interest) ==
    LET questions == parseQuizQuestions(quizResponse, mapGradeToDifficulty(gradeLevel))
    IN  [questions |-> questions,
         totalPoints |-> SumPoints(questions),
         difficulty |-> gradeLevel,
         gradeLevel |-> gradeLevel,
         interest |-> interest]

\* generateQuiz returns for some preferences and some response of the writer
GenerateQuiz ==
    /\ \E gradeLevel \in GradeLevels, interest \in Interests, quizResponse \in Responses :
          generated' = [kind |-> "quiz", gradeLevel |-> gradeLevel, interest |-> interest,
                        response |-> quizResponse,
                        quiz |-> generateQuiz(quizResponse, gradeLevel, interest)]
    /\ UNCHANGED <<run, apiPresent, lastIndex, abortController, controllerAborted, cancelled,
                   sessions, storageLog, hook, app>>

(***************************************************************************)
(* Texts of the materials.  A text is a sequence of whitespace-separated   *)
(* tokens, possibly after leading whitespace; a token is a word w (lower   *)
(* case letters, "" for none) and whether a sentence terminator follows it *)
(***************************************************************************)
Token(w, end) == [w |-> w, end |-> end]

Text(lead, tokens) == [lead |-> lead, tokens |-> tokens]

\* word.length of the words the texts use
WordLength(w) ==
    CASE w = "" -> 0
      [] w \in {"the", "cat", "sat"} -> 3
      [] w = "with" -> 4
      [] w \in {"light", "water", "roots", "stems", "seeds"} -> 5
      [] w \in {"plants", "energy", "leaves", "fruits"} -> 6
      [] OTHER -> 7

\* the members of extractConcepts' commonWords among the words the texts use
commonWords == {"the", "with"}

\* content.split(/\s+/).length
SplitLength(t) ==
    IF t.tokens = <<>> THEN (IF t.lead THEN 2 ELSE 1)
    ELSE Len(t.tokens) + (IF t.lead THEN 1 ELSE 0)

RECURSIVE TokenChars(_)
TokenChars(tokens) ==
    IF tokens = <<>> THEN 0
    ELSE WordLength(tokens[1].w) + (IF tokens[1].end THEN 1 ELSE 0)
         + TokenChars(Tail(tokens))

\* content.length: the tokens, one space between two tokens, the leading space
CharacterCount(t) ==
    TokenChars(t.tokens) + (IF t.lead THEN 1 ELSE 0)
    + (IF Len(t.tokens) > 1 THEN Len(t.tokens) - 1 ELSE 0)

\* the words a token list holds (tokens of punctuation alone hold none)
WordCount(t) == Cardinality({i \in DOMAIN t.tokens : t.tokens[i].w # ""})

RECURSIVE SentenceCount(_, _)
\* text.split(/[.!?]+/).filter(s => s.trim().length > 0).length; open: the
\* piece being read holds a word
SentenceCount(tokens, open) ==
    IF tokens = <<>> THEN (IF open THEN 1 ELSE 0)
    ELSE LET holds == open \/ tokens[1].w # "" IN
         IF tokens[1].end
         THEN (IF holds THEN 1 ELSE 0) + SentenceCount(Tail(tokens), FALSE)
         ELSE SentenceCount(Tail(tokens), holds)

RECURSIVE Repeat(_, _)
Repeat(tokens, n) == IF n = 0 THEN <<>> ELSE tokens \o Repeat(tokens, n - 1)

\* the words of the short adapted texts
SmallWords == {"", "the", "with", "plants", "light"}

SmallTokens == {Token(w, end) : w \in SmallWords, end \in BOOLEAN} \ {Token("", FALSE)}

\* the longest enumerated adapted text, in tokens
MaxTokens == 2

\* every text of at most MaxTokens small tokens
SmallTexts ==
    {Text(lead, tokens) :
        lead \in BOOLEAN,
        tokens \in UNION {[1..n -> SmallTokens] : n \in 0..MaxTokens}}

\* texts long enough for a source: no concept at all, one concept, concepts
\* with equal and different frequencies, more than eight concepts
LongTexts ==
    { Text(FALSE, Repeat(<<Token("the", FALSE), Token("cat", FALSE), Token("sat", TRUE)>>, 6)),
      Text(FALSE, Repeat(<<Token("plants", FALSE)>>, 9) \o <<Token("plants", TRUE)>>),
      Text(FALSE, Repeat(<<Token("the", FALSE), Token("light", FALSE), Token("with", FALSE),
                           Token("water", FALSE), Token("water", TRUE)>>, 3)),
      Text(TRUE, <<Token("plants", FALSE), Token("light", FALSE), Token("water", TRUE),
                   Token("roots", FALSE), Token("stems", FALSE), Token("seeds", TRUE),
                   Token("energy", FALSE), Token("leaves", FALSE), Token("fruits", TRUE),
                   Token("flowers", FALSE), Token("flowers", TRUE)>>) }

\* the contents that pass validation and reach the stages
SourceTexts ==
    {t \in LongTexts : CharacterCount(t) >= minCharacters /\ WordCount(t) >= minWords}

\* the texts chromeAIService.rewrite may resolve with
AdaptedTexts == SmallTexts \cup LongTexts

(***************************************************************************)
(* ContentProcessor: concept map and audio lesson                          *)
(***************************************************************************)
\* the cleaned words extractConcepts counts, in the order of the text
ConceptWords(t) ==
    LET keep(token) == WordLength(token.w) > 3 /\ token.w \notin commonWords
        kept == SelectSeq(t.tokens, keep)
    IN  [i \in DOMAIN kept |-> kept[i].w]

Frequency(words, w) == Cardinality({i \in DOMAIN words : words[i] = w})

FirstIndex(words, w) == CHOOSE i \in DOMAIN words :
                            words[i] = w /\ \A j \in DOMAIN words : words[j] = w => i <= j

\* place of w after the stable sort of the wordFreq entries by falling count
Rank(words, w) ==
    1 + Cardinality({i \in DOMAIN words :
            /\ i = FirstIndex(words, words[i])
            /\ words[i] # w
            /\ \/ Frequency(words, words[i]) > Frequency(words, w)
               \/ /\ Frequency(words, words[i]) = Frequency(words, w)
                  /\ i < FirstIndex(words, w)})

\* the first letter in upper case
Capitalize(w) == [capitalized |-> w]

\* ContentProcessor.extractConcepts
extractConcepts(t) ==
    LET words == ConceptWords(t)
        distinct == {words[i] : i \in DOMAIN words}
        n == IF Cardinality(distinct) > 8 THEN 8 ELSE Cardinality(distinct)
    IN  [k \in 1..n |-> Capitalize(CHOOSE w \in distinct : Rank(words, w) = k)]

\* ContentProcessor.generateMindMap once chromeAIService.write resolved; node
\* and edge ids are the numbers of node_<n> and edge_<n>
generateMindMap(content) ==
    LET concepts == extractConcepts(content) IN
    [nodes |-> [i \in DOMAIN concepts |->
                   [id |-> i - 1, label |-> concepts[i],
                    level |-> IF i = 1 THEN 0 ELSE 1,
                    importance |-> IF i = 1 THEN 10
                                   ELSE IF 10 - (i - 1) > 5 THEN 10 - (i - 1) ELSE 5]],
     edges |-> [i \in 1..(Len(concepts) - 1) |->
                   [id |-> i - 1, sourceId |-> 0, targetId |-> i]],
     rootNodeId |-> 0]

\* a time in seconds, as the fraction num / den
Time(num, den) == [num |-> num, den |-> den]

\* ContentProcessor.createAudioSegments; with no sentence the division by
\* zero gives Infinity, which no segment uses
createAudioSegments(text, totalDuration) ==
    LET n == SentenceCount(text.tokens, FALSE) IN
    [i \in 1..n |-> [id |-> i - 1,
                     startTime |-> Time((i - 1) * totalDuration, n),
                     endTime |-> Time(i * totalDuration, n)]]

\* ContentProcessor.generateAudioLesson; Math.ceil(words.length / 3)
generateAudioLesson(adaptedText) ==
    LET estimatedDuration == (SplitLength(adaptedText) + 2) \div 3 IN
    [duration |-> estimatedDuration,
     segments |-> createAudioSegments(adaptedText, estimatedDuration)]

\* processContent, Step 4: the text handed to generateMindMap
MindMapSource(content, adaptedText) == content

\* processContent, Steps 3 to 5 once the capability calls resolved: the
\* rewriter returned adaptedText for content.  The materials of a run are
\* built once, before its quiz (Step 6)
GenerateMaterials ==
    /\ generated = NotGenerated
    /\ \E content \in SourceTexts, adaptedText \in AdaptedTexts :
          generated' = [kind |-> "materials", content |-> content,
                        adaptedText |-> adaptedText,
                        mindMap |-> generateMindMap(MindMapSource(content, adaptedText)),
                        audioLesson |-> generateAudioLesson(adaptedText)]
    /\ UNCHANGED <<run, apiPresent, lastIndex, abortController, controllerAborted, cancelled,
                   sessions, storageLog, hook, app>>

(***************************************************************************)
(* SpecMaterials: the generate functions on every preference               *)
(***************************************************************************)
NextMaterials ==
    \/ GenerateQuiz
    \/ GenerateMaterials

SpecMaterials == InitStorage /\ [][NextMaterials]_vars

(***************************************************************************)
(* ChromeAIService.checkCapabilities                                       *)
(***************************************************************************)
\* the API entry points checkCapabilities looks at on globalThis
Apis == Kinds \cup {"LanguageModel", "Proofreader", "Translator", "LanguageDetector"}

\* globalThis.<Api> is undefined
Absent == [present |-> FALSE, status |-> "none", value |-> "none"]

\* what <Api>.availability() of an API settles with
Queries ==
    {Absent}
    \cup {[present |-> TRUE, status |-> "fulfilled", value |-> v] : v \in AvailabilityStatus}
    \cup {[present |-> TRUE, status |-> "rejected", value |-> "none"]}

\* the hosts of the service: the three APIs of the pipeline are present as
\* apiPresent says
Environments ==
    {env \in [Apis -> Queries] : \A k \in Kinds : env[k].present = apiPresent[k]}

\* ChromeAIService.getAPISupport
getAPISupport(env) == [a \in Apis |-> env[a].present]

\* the AICapabilities with every API at "no"
NoCapabilities == [status |-> [a \in Apis |-> "no"], overall |-> FALSE]

\* what Promise.allSettled gives for the query of one API
Settled(env, support, a) ==
    IF support[a] THEN [status |-> env[a].status, value |-> env[a].value]
    ELSE [status |-> "fulfilled", value |-> "no"]

\* getResult of checkCapabilities
getResult(check) == IF check.status = "fulfilled" THEN check.value ELSE "no"

\* mutant: the queries are awaited with Promise.all, so that one rejection
\* reaches the catch block
checkCapabilitiesAll(env) ==
    LET support == getAPISupport(env)
        checks == [a \in Apis |-> Settled(env, support, a)]
        status == [a \in Apis |-> getResult(checks[a])]
    IN  IF \E a \in Apis : checks[a].status = "rejected"
        THEN [status |-> "fulfilled", value |-> NoCapabilities]
        ELSE [status |-> "fulfilled",
              value |-> [status |-> status,
                         overall |-> \E a \in Apis :
                                        status[a] \in {"readily", "after-download"}]]

\* ChromeAIService.checkCapabilities: the promise it returns
checkCapabilities(env) ==
    LET support == getAPISupport(env)
        checks == [a \in Apis |-> Settled(env, support, a)]
        status == [a \in Apis |-> getResult(checks[a])]
    IN  IF ~\E a \in Apis : support[a]
        THEN [status |-> "fulfilled", value |-> NoCapabilities]
        ELSE [status |-> "fulfilled",
              value |-> [status |-> status,
                         overall |-> \E a \in Apis :
                                        status[a] \in {"readily", "after-download"}]]

\* checkCapabilities is called on a host and its promise settles
CheckCapabilities ==
    /\ generated = NotGenerated
    /\ \E env \in Environments :
          generated' = [kind |-> "capabilities", env |-> env,
                        promise |-> checkCapabilities(env)]
    /\ UNCHANGED <<run, apiPresent, lastIndex, abortController, controllerAborted, cancelled,
                   sessions, storageLog, hook, app>>

NextCapabilities == CheckCapabilities

SpecCapabilities == Init /\ [][NextCapabilities]_vars

(***************************************************************************)
(* App: the input, preferences, processing and dashboard steps             *)
(***************************************************************************)
\* content.length of the values the textarea may receive
ContentLengths == {0, 1, 49, 50, 51, 50000, 50001, 60000}

\* the values of the two selectors, "" for the placeholder option
GradeChoices == {""} \cup GradeLevels

InterestChoices == {""} \cup Interests

AppIdle ==
    UNCHANGED <<run, apiPresent, lastIndex, abortController, controllerAborted, cancelled,
                sessions, storageLog, hook, generated>>

\* the mount effect: checkSupport; APIs other than the pipeline's three may
\* be present as well
CheckSupport ==
    /\ app.effect = "pending"
    /\ \E others \in BOOLEAN :
          app' = [app EXCEPT !.effect = "done",
                             !.supported = others \/ \E k \in Kinds : apiPresent[k]]
    /\ AppIdle

\* App.handleContentInput, the onChange of the textarea of the input step
HandleContentInput ==
    /\ app.currentStep = "input"
    /\ \E length \in ContentLengths :
          app' = [app EXCEPT !.content = length,
                             !.currentStep = IF length >= 50 THEN "preferences" ELSE "input"]
    /\ AppIdle

\* the onChange of the grade selector of the preferences step
SelectGrade ==
    /\ app.currentStep = "preferences"
    /\ \E gradeLevel \in GradeChoices : app' = [app EXCEPT !.gradeLevel = gradeLevel]
    /\ AppIdle

\* the onChange of the interest selector of the preferences step
SelectInterest ==
    /\ app.currentStep = "preferences"
    /\ \E interest \in InterestChoices : app' = [app EXCEPT !.interest = interest]
    /\ AppIdle

\* the generate button is rendered and enabled
GenerateAvailable ==
    /\ app.currentStep = "preferences"
    /\ app.gradeLevel # ""
    /\ app.interest # ""
    /\ app.supported

\* the span with data-testid content-error is rendered
ContentErrorVisible == app.currentStep = "input" /\ app.content > 50000

\* the span with data-testid min-length-error is rendered
MinLengthErrorVisible ==
    app.currentStep = "input" /\ app.content > 0 /\ app.content < 50

\* the click on the generate button: App.handlePreferencesSet and
\* App.processContent up to `await chromeAIService.summarize(content)`
HandlePreferencesSet ==
    /\ GenerateAvailable
    /\ app' = [app EXCEPT !.currentStep = "processing", !.isProcessing = TRUE,
                          !.error = FALSE, !.pc = "summarize",
                          !.calls = @ \cup {"summarize"},
                          !.startedWith = @ \cup {app.content}]
    /\ AppIdle

\* summarize resolved: App.processContent goes on to chromeAIService.rewrite
SummarizeResolves ==
    /\ app.pc = "summarize"
    /\ app' = [app EXCEPT !.pc = "rewrite", !.calls = @ \cup {"rewrite"}]
    /\ AppIdle

\* rewrite resolved: the materials are built and the dashboard is shown
RewriteResolves ==
    /\ app.pc = "rewrite"
    /\ app' = [app EXCEPT !.pc = "idle", !.currentStep = "dashboard", !.isProcessing = FALSE]
    /\ AppIdle

\* summarize or rewrite rejected: the catch block of App.processContent
CapabilityRejects ==
    /\ app.pc \in {"summarize", "rewrite"}
    /\ app' = [app EXCEPT !.pc = "idle", !.currentStep = "preferences",
                          !.isProcessing = FALSE, !.error = TRUE]
    /\ AppIdle

NextApp ==
    \/ CheckSupport
    \/ HandleContentInput
    \/ SelectGrade
    \/ SelectInterest
    \/ HandlePreferencesSet
    \/ SummarizeResolves
    \/ RewriteResolves
    \/ CapabilityRejects

SpecApp == Init /\ [][NextApp]_vars

(***************************************************************************)
(* Properties                                                              *)
(***************************************************************************)
\* C1 (fail-fast): a run whose content fails TextValidator.validate makes no
\* capability call (no availability query, no create, no transform) and
\* resolves with success = false, stats.apiCalls = 0 and no materials.
C1_FailFast ==
    \A r \in Runs :
        run[r].valid = "invalid" =>
            /\ run[r].calls = <<>>
            /\ run[r].handles = <<>>
            /\ Done(r)
            /\ Len(run[r].results) = 1
            /\ ~Result(r).success
            /\ Result(r).apiCalls = 0
            /\ ~Result(r).materials

\* a run with validation enabled was given the 10-character text
C1_Witness ==
    \E r \in Runs :
        /\ Done(r)
        /\ run[r].includeValidation
        /\ run[r].content = 2
        /\ run[r].valid = "invalid"

\* C2 (disposal): every handle a run created is destroyed exactly once: it is
\* destroyed zero times only while its transform call is pending, never twice,
\* and when the run is over the destroy calls equal the handles created; with
\* failed transforms, cancelled runs and runs in flight together.
C2_Disposal ==
    \A r \in Runs :
        /\ \A i \in DOMAIN run[r].handles :
               run[r].handles[i].destroys =
                   IF run[r].pc = "transform" /\ i = Len(run[r].handles) THEN 0 ELSE 1
        /\ Done(r) =>
               Cardinality({i \in DOMAIN run[r].calls : run[r].calls[i].op = "destroy"})
                   = Len(run[r].handles)

\* a cancelled run ended by a failed transform after it had created two
\* handles, while another run holds a live handle
C2_Witness ==
    \E r, q \in Runs :
        /\ r # q
        /\ Done(r)
        /\ run[r].raisedAt = "transform"
        /\ cancelled[r] # NotCancelled
        /\ Len(run[r].handles) = 2
        /\ run[q].pc = "transform"

\* the run is over and did not succeed
Failed(r) == Done(r) /\ (run[r].results = <<>> \/ ~Result(r).success)

\* an error message that classifies the failure as a cancellation
IsAborted(message) ==
    \E i \in DOMAIN message : message[i] \in {"aborted", "AbortError", "cancelled"}

\* C3 (cancellation result): a run whose token was cancelled after k stages
\* had completed returns success = false, an error classified as aborted,
\* stats.apiCalls = k and no materials.
C3_CancellationResult ==
    \A r \in Runs :
        (Done(r) /\ cancelled[r] # NotCancelled) =>
            /\ Len(run[r].results) = 1
            /\ ~Result(r).success
            /\ IsAborted(Result(r).error)
            /\ Result(r).apiCalls = cancelled[r]
            /\ ~Result(r).materials

InProgressEntries(st) ==
    Cardinality({i \in DOMAIN st.progress : st.progress[i].status = "in_progress"})

\* C4: once the token of a run is cancelled, no stage that had not already
\* started is started: the run emits no further in_progress entry and creates
\* no handle for a later stage.
C4_NoStageAfterCancel ==
    [][\A r \in Runs :
          cancelled[r] # NotCancelled =>
              /\ InProgressEntries(run'[r]) = InProgressEntries(run[r])
              /\ Len(run'[r].handles) > Len(run[r].handles) =>
                     run'[r].step = run[r].step]_vars

\* the generation stages whose completed entry was emitted
CompletedSteps(st) ==
    {step \in StepSet :
        \E i \in DOMAIN st.progress :
            st.progress[i].step = step /\ st.progress[i].status = "completed"}

\* C5: a failed run never rejects: it resolves exactly once with success =
\* false, a non-empty error string, no materials, and stats.stepTimes holding
\* an entry for exactly the generation stages that completed.
C5_FailedRunResolves ==
    \A r \in Runs :
        Failed(r) =>
            /\ run[r].rejections = <<>>
            /\ Len(run[r].results) = 1
            /\ ~Result(r).success
            /\ Result(r).hasError
            /\ Result(r).error # <<>>
            /\ ~Result(r).materials
            /\ Result(r).stepTimes = CompletedSteps(run[r])

\* C6: no capability call of a stage is issued twice within a run, and the
\* stage that fails is the last one started: the progress log of a failed run
\* ends with the in_progress entry of the failing stage and the error entry.
C6_NoRetry ==
    \A r \in Runs :
        /\ \A step \in StepSet, op \in {"availability", "create", "transform", "destroy"} :
               CallCount(run[r], op, step) <= 1
        /\ Failed(r) =>
               LET n == Len(run[r].progress) IN
               /\ n >= 2
               /\ run[r].progress[n].status = "error"
               /\ run[r].progress[n - 1].status = "in_progress"
               /\ run[r].valid # "invalid" => run[r].progress[n - 1].step = run[r].step

\* the run ended when the rewrite call of its second stage failed
C6_Witness ==
    \E r \in Runs :
        /\ Failed(r)
        /\ run[r].step = "adapting"
        /\ run[r].raisedAt = "transform"
        /\ CallCount(run[r], "transform", "summarizing") = 1
        /\ CallCount(run[r], "transform", "adapting") = 1

\* the stages of the run that issued their transform call
AttemptedSteps(st) == {step \in StepSet : CallCount(st, "transform", step) >= 1}

\* C7: in every GenerationResult stats.apiCalls is the number of stages that
\* attempted their external call, a failed attempt included.
C7_ApiCallsCountAttempts ==
    \A r \in Runs :
        (Done(r) /\ Len(run[r].results) = 1) =>
            Result(r).apiCalls = Cardinality(AttemptedSteps(run[r]))

\* C8 (scenario C): when availability() of the summarizer reports "no", the
\* run ends at the summarizing step after the availability query alone, with
\* no handle, stats.apiCalls = 0, and a failure classified API_UNAVAILABLE.
C8_UnavailableClassified ==
    \A r \in Runs :
        (run[r].step = "summarizing" /\ run[r].raisedAt = "unavailable") =>
            /\ Failed(r)
            /\ run[r].calls = <<[op |-> "availability", step |-> "summarizing"]>>
            /\ run[r].handles = <<>>
            /\ Result(r).apiCalls = 0
            /\ run[r].opRejection.code = "API_UNAVAILABLE"

\* C9: when a stage fails with an AIServiceError built by handleError, the
\* error of the GenerationResult is that failure's code or its message, and
\* the failure is not re-thrown.
C9_ErrorCarriesClassification ==
    \A r \in Runs :
        (Done(r) /\ run[r].opRejection.type = "AIServiceError") =>
            /\ run[r].rejections = <<>>
            /\ Len(run[r].results) = 1
            /\ \/ Result(r).error = run[r].opRejection.message
               \/ Result(r).error = <<run[r].opRejection.code>>

\* the code the central mapping gives a thrown value
MappedCode(value) ==
    IF value.type # "Error" THEN "UNKNOWN_ERROR"
    ELSE IF value.name = "NotSupportedError" THEN "API_UNAVAILABLE"
    ELSE IF value.name = "InvalidStateError" THEN "MODEL_NOT_READY"
    ELSE IF value.name = "QuotaExceededError" THEN "RATE_LIMITED"
    ELSE IF Includes(value.message, <<"too", "long">>) THEN "CONTENT_TOO_LONG"
    ELSE IF value.name = "NetworkError" THEN "NETWORK_ERROR"
    ELSE "PROCESSING_ERROR"

\* C10: when the transform call of a handle fails, the ChromeAIService
\* operation rejects with an AIServiceError whose code follows the central
\* mapping.
C10_TransformFailureClassified ==
    \A r \in Runs :
        run[r].raisedAt = "transform" =>
            /\ run[r].opRejection.type = "AIServiceError"
            /\ run[r].opRejection.code = MappedCode(run[r].raised)

\* the percent values of a progress log never go down
NonDecreasing(progress) ==
    \A i \in 1..(Len(progress) - 1) : progress[i].progress <= progress[i + 1].progress

\* the run resolved with success = true
Succeeded(r) == Done(r) /\ Len(run[r].results) = 1 /\ Result(r).success

\* C11 (progress monotonicity): in every successful run, with or without the
\* validation step, the percent values passed to onProgress are non-decreasing
\* and the last one is 100.
C11_ProgressMonotone ==
    \A r \in Runs :
        Succeeded(r) =>
            /\ run[r].progress # <<>>
            /\ NonDecreasing(run[r].progress)
            /\ run[r].progress[Len(run[r].progress)].progress = 100

\* a run without the validation step succeeded after emitting its 12 entries
C11_Witness ==
    \E r \in Runs :
        /\ Succeeded(r)
        /\ ~run[r].includeValidation
        /\ Len(run[r].progress) = 12

\* C12: in every run, failed runs included, the percent values of the entries
\* emitted so far are non-decreasing.
C12_ProgressNonDecreasing ==
    \A r \in Runs : NonDecreasing(run[r].progress)

\* the stages in their fixed order, and the checkpoint of each
StageOrder ==
    <<"validation", "summarizing", "adapting", "creating_mindmap", "generating_audio",
      "creating_quiz", "finalizing">>

Checkpoints == <<10, 35, 60, 80, 90, 98, 100>>

StageIndex(step) ==
    IF \E i \in 1..Len(StageOrder) : StageOrder[i] = step
    THEN CHOOSE i \in 1..Len(StageOrder) : StageOrder[i] = step
    ELSE 0

\* C13 (stage order and checkpoints): the stages of a run start in the fixed
\* order (validation first when it is enabled); the entries come in pairs, the
\* in_progress entry of a stage followed by the completed or error entry of
\* that same stage; a completed entry carries the stage's checkpoint.
C13_StageOrderAndCheckpoints ==
    \A r \in Runs :
        LET p == run[r].progress
            first == IF run[r].includeValidation THEN 1 ELSE 2
        IN  \A i \in DOMAIN p :
                IF i % 2 = 1
                THEN /\ p[i].status = "in_progress"
                     /\ StageIndex(p[i].step) = first + (i - 1) \div 2
                ELSE /\ p[i].status \in {"completed", "error"}
                     /\ p[i].step = p[i - 1].step
                     /\ p[i].status = "completed" =>
                            p[i].progress = Checkpoints[StageIndex(p[i].step)]

\* C14 (isolation of concurrent runs): cancelling a run aborts the
\* AbortController that run created, and the controller of a run is aborted
\* only when that run was cancelled.
C14_RunsIsolated ==
    \A r \in Runs : controllerAborted[r] <=> cancelled[r] # NotCancelled

\* C15: from the empty store, after any sequence of saveSession,
\* deleteSession and clearAllSessions calls the store holds at most
\* MAX_SESSIONS sessions and no two of them have the same id.
C15_StoreBounded ==
    /\ Len(sessions) <= MAX_SESSIONS
    /\ \A i, j \in DOMAIN sessions : sessions[i].id = sessions[j].id => i = j

\* the store is full after more than MAX_SESSIONS insertions and other calls
C15_Witness ==
    /\ Len(sessions) = MAX_SESSIONS
    /\ storageLog.insertions > MAX_SESSIONS
    /\ storageLog.otherCalls > 0

\* the ids of a stored list, in its order
IdsOf(list) == [i \in DOMAIN list |-> list[i].id]

\* the stored ids that were inserted earliest, by the log
Oldest(list, log) ==
    {id \in StoredIds(list) :
        \A other \in StoredIds(list) : log.insertedAt[id] <= log.insertedAt[other]}

\* C16 (FIFO eviction): a saveSession that inserts a new id into a store of
\* MAX_SESSIONS sessions evicts exactly one session, the one inserted
\* earliest; a call that inserts and removes nothing (getSession, the re-save
\* of a stored id) leaves the order of the stored sessions as it was, and the
\* stored sessions stay ordered from the latest insertion to the earliest.
C16_FifoEviction ==
    [][/\ (Len(sessions) = MAX_SESSIONS /\ StoredIds(sessions') \ StoredIds(sessions) # {}) =>
              /\ Cardinality(StoredIds(sessions) \ StoredIds(sessions')) = 1
              /\ StoredIds(sessions) \ StoredIds(sessions') = Oldest(sessions, storageLog)
       /\ StoredIds(sessions') = StoredIds(sessions) => IdsOf(sessions') = IdsOf(sessions)
       /\ \A i, j \in DOMAIN sessions' :
              i < j => storageLog'.insertedAt[sessions'[i].id]
                           > storageLog'.insertedAt[sessions'[j].id]]_vars

\* after an eviction the store is full, its oldest session is one that was
\* re-saved, and a getSession found a session
C16_Witness ==
    /\ Len(sessions) = MAX_SESSIONS
    /\ storageLog.insertions > MAX_SESSIONS
    /\ sessions[MAX_SESSIONS].title = "b"
    /\ storageLog.lastRead = "found"

\* C17 (scenario B): a createSession call whose content fails validation
\* starts no pipeline: no processContent run begins, no capability call is
\* made, no GenerationResult is produced, nothing is written to storage, and
\* the hook is left with isProcessing = false and the validation message in
\* error (for the 10-character text: a minimum-length error).
C17_InvalidContentNeverStarts ==
    [][(hook'.createCalls # hook.createCalls /\ ~hook'.validation.isValid) =>
           /\ run' = run
           /\ abortController' = abortController
           /\ hook'.invocation = hook.invocation
           /\ sessions' = sessions
           /\ storageLog' = storageLog
           /\ ~hook'.isProcessing
           /\ ~hook'.error.isNull
           /\ hook'.error.message =
                  <<"Content", "validation", "failed:">> \o hook'.validation.errors
           /\ hook'.validation.content = 2 =>
                  \E i \in DOMAIN hook'.validation.errors :
                      hook'.validation.errors[i] = "min_characters"]_vars

\* the only createSession call so far was given the 10-character text
C17_Witness ==
    /\ hook.createCalls = 1
    /\ \A r \in Runs : run[r].pc = "idle"
    /\ hook.validation.content = 2
    /\ ~hook.validation.isValid
    /\ ~hook.isProcessing
    /\ hook.error = ErrorMessage(<<"Content", "validation", "failed:",
                                   "min_characters", "min_words">>)

\* the text holds a complete <script> or <iframe> block
HasBlock(t) == \E i \in DOMAIN t : t[i].k \in {"script", "iframe"}

\* C18: every validate call on a content that holds a complete <script> or
\* <iframe> block, whatever calls the same validator served before, gives
\* isValid = false and reports the forbidden pattern as an error.
C18_BlockAlwaysRejected ==
    (hook.validation.content # 0 /\ HasBlock(Contents[hook.validation.content])) =>
        /\ ~hook.validation.isValid
        /\ \E i \in DOMAIN hook.validation.errors :
               hook.validation.errors[i] = "forbidden_pattern"

\* C19 (quiz difficulty mapping): every question of the quiz has the
\* difficulty and the points of the grade's bucket: grades 1-5 easy and 2,
\* grades 6-8 medium and 3, grades 9-12 and undergrad hard and 4.
C19_QuizDifficulty ==
    generated.kind = "quiz" =>
        LET g == generated.gradeLevel
            expected ==
                IF g \in {"1", "2", "3", "4", "5"} THEN [difficulty |-> "easy", points |-> 2]
                ELSE IF g \in {"6", "7", "8"} THEN [difficulty |-> "medium", points |-> 3]
                ELSE [difficulty |-> "hard", points |-> 4]
        IN  \A i \in DOMAIN generated.quiz.questions :
                /\ generated.quiz.questions[i].difficulty = expected.difficulty
                /\ generated.quiz.questions[i].points = expected.points

\* a quiz was generated for an undergraduate
C19_Witness ==
    /\ generated.kind = "quiz"
    /\ generated.gradeLevel = "undergrad"
    /\ Len(generated.quiz.questions) = 3

WellFormed(map) ==
    LET ids == {map.nodes[i].id : i \in DOMAIN map.nodes} IN
    /\ map.rootNodeId \in ids
    /\ \A i \in DOMAIN map.edges :
           map.edges[i].sourceId \in ids /\ map.edges[i].targetId \in ids

\* the edges of the map that end at node id
Incoming(map, id) == {i \in DOMAIN map.edges : map.edges[i].targetId = id}

\* C21 (concept-map tree): for a non-empty text given to the concept-map
\* stage the map has at least one node, rootNodeId names a node, the root is
\* the only node without an incoming edge, every other node is the target of
\* exactly one edge, which starts at the root, and every edge joins nodes.
C21_ConceptMapTree ==
    (generated.kind = "materials" /\ generated.content.tokens # <<>>) =>
        LET map == generated.mindMap IN
        /\ Len(map.nodes) >= 1
        /\ WellFormed(map)
        /\ \A i \in DOMAIN map.nodes :
               IF map.nodes[i].id = map.rootNodeId
               THEN Incoming(map, map.nodes[i].id) = {}
               ELSE /\ Cardinality(Incoming(map, map.nodes[i].id)) = 1
                    /\ \A k \in Incoming(map, map.nodes[i].id) :
                           map.edges[k].sourceId = map.rootNodeId

\* a / b = c / d over the fractions
TimeEq(a, b) == a.num * b.den = b.num * a.den

\* a / b < c / d over the fractions (the denominators are positive)
TimeLt(a, b) == a.num * b.den < b.num * a.den

\* C22 (audio segment contiguity): for a non-empty adapted text the segments
\* start at time 0, each segment ends where the next one starts, each has
\* startTime < endTime, and the last one ends at the reported duration.
C22_SegmentContiguity ==
    (generated.kind = "materials" /\ generated.adaptedText.tokens # <<>>) =>
        LET segments == generated.audioLesson.segments
            duration == generated.audioLesson.duration
        IN  /\ Len(segments) >= 1
            /\ segments[1].startTime.num = 0
            /\ \A i \in 1..(Len(segments) - 1) :
                   TimeEq(segments[i].endTime, segments[i + 1].startTime)
            /\ \A i \in DOMAIN segments :
                   TimeLt(segments[i].startTime, segments[i].endTime)
            /\ TimeEq(segments[Len(segments)].endTime, Time(duration, 1))

\* C23 (degenerate adapt output): when the adapted text is empty or only
\* whitespace, the audio script has no segment and the concept map is well
\* formed: rootNodeId names a node of nodes and no edge dangles.
C23_DegenerateAdaptedText ==
    (generated.kind = "materials" /\ generated.adaptedText.tokens = <<>>) =>
        /\ generated.audioLesson.segments = <<>>
        /\ WellFormed(generated.mindMap)

\* C27 (data flow): the concept map of a run is the one extracted from the
\* text its adapt stage produced.
C27_ConceptsFromAdaptedText ==
    generated.kind = "materials" =>
        generated.mindMap = generateMindMap(generated.adaptedText)

\* the handles of the run that were created and not destroyed yet
AliveHandles(st) == {i \in DOMAIN st.handles : st.handles[i].destroys = 0}

\* C26 (stage-scoped handles): within a run at most one handle is alive at
\* any instant, and a handle is alive only while the transform call of its own
\* stage is in flight: it is destroyed before the next stage emits in_progress
\* and before the run ends, whether the call resolved or rejected.
C26_OneHandleAlive ==
    \A r \in Runs :
        /\ Cardinality(AliveHandles(run[r])) <= 1
        /\ \A i \in AliveHandles(run[r]) :
               /\ run[r].pc = "transform"
               /\ run[r].handles[i].step = run[r].step
               /\ run[r].progress[Len(run[r].progress)].step = run[r].step
               /\ run[r].progress[Len(run[r].progress)].status = "in_progress"
        /\ Done(r) => AliveHandles(run[r]) = {}

\* the summarizer handle was destroyed on the success path and the rewriter
\* handle on the failure path
C26_Witness ==
    \E r \in Runs :
        /\ Failed(r)
        /\ run[r].step = "adapting"
        /\ run[r].raisedAt = "transform"
        /\ Len(run[r].handles) = 2
        /\ \A i \in DOMAIN run[r].handles : run[r].handles[i].destroys = 1

OutOfRange(length) == length < minCharacters \/ length > maxCharacters

\* C24 (length gate of the App flow): generation is never started with
\* content shorter than 50 or longer than 50,000 characters; with such
\* content the generate button is not available, no capability call is in
\* flight, and over-long content keeps the user on the input step with the
\* 'too long' error shown.
C24_LengthGate ==
    /\ \A length \in app.startedWith : ~OutOfRange(length)
    /\ OutOfRange(app.content) =>
           /\ ~GenerateAvailable
           /\ app.currentStep # "processing"
           /\ app.calls = {}
    /\ app.content > maxCharacters =>
           /\ app.currentStep = "input"
           /\ ContentErrorVisible

\* the ids of the sessions the hook lists as saved
SavedIds == {hook.savedSessions[i] : i \in DOMAIN hook.savedSessions}

\* C28 (abortProcessing cancels the run): a run that was in flight when
\* abortProcessing was called has had contentProcessor.abort() invoked for
\* it, and its session is not the completed current session and is not in
\* the session store.
C28_AbortCancelsRun ==
    \A r \in hook.abortedRuns :
        /\ controllerAborted[r]
        /\ hook.currentSession # [id |-> hook.invocation[r].sessionId, status |-> "completed"]
        /\ hook.invocation[r].sessionId \notin StoredIds(sessions)

\* C29 (saved list mirrors the store): whenever no createSession call is
\* awaited, the ids of hook.savedSessions are the ids StorageService holds.
C29_SavedSessionsMatchStore ==
    (\A r \in Runs : hook.invocation[r].pc # "awaiting") =>
        SavedIds = StoredIds(sessions)

\* the createSession call that awaited run r returns in this step
CallReturns(r) == hook.invocation[r].pc = "awaiting" /\ hook'.invocation[r].pc = "done"

\* a createSession call starts and returns in this step (validation failed)
CallRejected ==
    /\ hook'.createCalls # hook.createCalls
    /\ \A r \in Runs : hook'.invocation[r].pc = hook.invocation[r].pc

\* after this step the hook is idle with a non-empty error message
EndsWithError ==
    /\ ~hook'.isProcessing
    /\ ProgressIsNull'
    /\ ~hook'.error.isNull
    /\ hook'.error.message # <<>>

\* C30 (createSession terminates): every createSession call returns once
\* its capability calls have settled; when it returns isProcessing is false
\* and progress is null, and unless the run succeeded and its session was
\* stored (validation failed, a stage failed, the save failed) error holds a
\* non-empty message.
C30_CreateSessionEnds ==
    /\ [][/\ CallRejected => EndsWithError
          /\ \A r \in Runs :
                CallReturns(r) =>
                    /\ ~hook'.isProcessing
                    /\ ProgressIsNull'
                    /\ (~(Succeeded(r)
                           /\ hook.invocation[r].sessionId \in StoredIds(sessions')))
                          => EndsWithError]_vars
    /\ \A r \in Runs :
          (hook.invocation[r].pc = "awaiting") ~> (hook.invocation[r].pc = "done")

\* the call returned after the save of its completed session failed
C30_Witness ==
    \E r \in Runs :
        /\ hook.invocation[r].pc = "done"
        /\ Succeeded(r)
        /\ hook.invocation[r].sessionId \notin StoredIds(sessions)
        /\ ~hook.isProcessing
        /\ ProgressIsNull
        /\ hook.error = ErrorMessage(<<"Failed", "to", "save", "session", "to", "storage">>)

====
